---- MODULE Spec2Model ----
(***************************************************************************)
(* State-machine model of the option-contracts Lambda handler              *)
(* (src/src/main.rs): parameter extraction from the inbound event, the     *)
(* Contract Lister call, the concurrent detail fetches joined by join_all, *)
(* the result shaping and the response envelope.                           *)
(*                                                                         *)
(* JSON values (serde_json::Value) are records tagged by k; a Rust string  *)
(* is a sequence of one-character strings, so that str::parse can be       *)
(* computed digit by digit.  Option<T> is None or Some(x).                 *)
(***************************************************************************)
EXTENDS Integers, Sequences, FiniteSets, TLC

\* ------------------------------------------------------------------ bounds
\* Longest `results` array the upstream list endpoint returns in the model.
MaxResults == 2
\* Local::now().date_naive() as a day number from 0001-01-01 (2026-11-03).
Today == 739923

\* ------------------------------------------------- library/program constants
\* unwrap_or(30) of days_forward.parse()
DefaultDaysForward == 30
\* chrono::NaiveDate::MAX (262142-12-31) and MIN (-262143-01-01) as day
\* numbers from 0001-01-01: `today + Duration::days(n)` panics outside them.
NaiveDateMaxDays == 95745399
NaiveDateMinDays == -95746129

\* ------------------------------------------------------------ JSON values
Absent == [k |-> "absent"]
JNull == [k |-> "null"]
JStr(s) == [k |-> "str", s |-> s]
JNum(n) == [k |-> "num", n |-> n]
JArr(a) == [k |-> "arr", a |-> a]
JObj(r) == [k |-> "obj", o |-> r]
\* A JSON string whose characters are a JSON text, held as its tokens.
JText(toks) == [k |-> "text", toks |-> toks]

None == [k |-> "none"]
Some(x) == [k |-> "some", v |-> x]

\* Value::get(key): Some(&value) when self is an object holding the key.
Get(val, key) ==
    IF val.k = "obj" /\ key \in DOMAIN val.o /\ val.o[key] # Absent
    THEN Some(val.o[key])
    ELSE None

\* Value::as_str
AsStr(val) ==
    IF val.k = "str" THEN Some(val.s)
    ELSE IF val.k = "text" THEN Some(val.toks)
    ELSE None

\* Option::and_then(|v| v.as_str())
AndThenAsStr(opt) == IF opt = None THEN None ELSE AsStr(opt.v)

\* value[key] (Index): Value::Null when self is no object or lacks the key.
Index(val, key) == IF Get(val, key) = None THEN JNull ELSE Get(val, key).v

\* ---------------------------------------------------------------- strings
S_AAPL == <<"A", "A", "P", "L">>
S_MSFT == <<"M", "S", "F", "T">>
S_KEY_DEFAULT == <<"Y", "O", "U", "R", "_", "A", "P", "I", "_", "K", "E", "Y">>
S_KEY == <<"k", "1">>
S_10 == <<"1", "0">>
S_5 == <<"5">>
S_30 == <<"3", "0">>
S_7 == <<"7">>
S_NEG == <<"-", "7">>
S_ABC == <<"a", "b", "c">>
S_HUGE == <<"1", "0", "0", "0", "0", "0", "0", "0", "0">>
S_CALL == <<"c", "a", "l", "l">>
S_PUT == <<"p", "u", "t">>

ParamFields == <<"ticker_symbol", "api_key", "limit", "days_forward", "contract_type">>
ParamFieldSet == {ParamFields[i] : i \in 1..Len(ParamFields)}

\* #[derive(Default)] Payload: every field None.
PayloadDefault == [f \in ParamFieldSet |-> None]

\* extract_parameters_from_value: each field read on its own,
\* value.get(name).and_then(|v| v.as_str()).
extract_parameters_from_value(value) ==
    [f \in ParamFieldSet |-> AndThenAsStr(Get(value, f))]

\* ---------------------------------------------------- serde: Payload
Ok(x) == [ok |-> TRUE, v |-> x]
Err == [ok |-> FALSE]

\* Result<Payload, _>::unwrap_or_default
unwrap_or_default(res) == IF res.ok THEN res.v ELSE PayloadDefault

\* Variant: a field of the wrong type is passed over, not an error.
RECURSIVE VisitMapLenient(_, _, _, _)
VisitMapLenient(entries, i, seen, acc) ==
    IF i > Len(entries) THEN Ok(acc)
    ELSE LET key == entries[i][1]
             val == entries[i][2]
         IN  IF key \notin ParamFieldSet
             THEN VisitMapLenient(entries, i + 1, seen, acc)
             ELSE IF key \in seen THEN Err
             ELSE IF val.k = "str"
             THEN VisitMapLenient(entries, i + 1, seen \cup {key},
                                  [acc EXCEPT ![key] = Some(val.s)])
             ELSE VisitMapLenient(entries, i + 1, seen \cup {key}, acc)

\* The derived Deserialize of Payload over the entries <<key, value>> of a
\* map: an unknown key is ignored, a known key seen twice is an error
\* (duplicate field), an Option<String> field takes null as None and a
\* string as Some; any other type is an error (invalid type).  Fields the
\* map lacks stay None.
RECURSIVE VisitMap(_, _, _, _)
VisitMap(entries, i, seen, acc) ==
    IF i > Len(entries) THEN Ok(acc)
    ELSE LET key == entries[i][1]
             val == entries[i][2]
         IN  IF key \notin ParamFieldSet
             THEN VisitMap(entries, i + 1, seen, acc)
             ELSE IF key \in seen THEN Err
             ELSE IF val.k = "null"
             THEN VisitMap(entries, i + 1, seen \cup {key}, [acc EXCEPT ![key] = None])
             ELSE IF val.k = "str"
             THEN VisitMap(entries, i + 1, seen \cup {key}, [acc EXCEPT ![key] = Some(val.s)])
             ELSE Err

\* JSON text is a sequence of tokens.
TPunct(c) == [k |-> c]
TKey(name) == [k |-> "key", name |-> name]
TStr(s) == [k |-> "str", s |-> s]
TNum(n) == [k |-> "num", n |-> n]
TNull == [k |-> "null"]

IsScalarToken(tok) == tok.k \in {"str", "num", "null", "key"}

\* The JSON value a scalar token reads as.
TokenValue(tok) ==
    CASE tok.k = "str" -> JStr(tok.s)
      [] tok.k = "num" -> JNum(tok.n)
      [] tok.k = "key" -> JStr(<<tok.name>>)
      [] OTHER -> JNull

\* The members of an object, from the token after "{" or ",": a string key,
\* ":", a scalar value, then "," and more members or the closing "}",
\* which must end the text (trailing characters are an error).
RECURSIVE ParseMembers(_, _, _)
ParseMembers(toks, i, acc) ==
    IF i + 3 > Len(toks) THEN Err
    ELSE IF ~(toks[i].k \in {"key", "str"} /\ toks[i + 1].k = ":" /\ IsScalarToken(toks[i + 2]))
    THEN Err
    ELSE LET key == IF toks[i].k = "key" THEN toks[i].name ELSE "?"
             acc2 == Append(acc, <<key, TokenValue(toks[i + 2])>>)
         IN  IF toks[i + 3].k = ","
             THEN ParseMembers(toks, i + 4, acc2)
             ELSE IF toks[i + 3].k = "}" /\ i + 3 = Len(toks)
             THEN Ok(acc2)
             ELSE Err

\* serde_json::from_str::<Payload>: the empty text is an EOF error, a
\* top-level scalar an invalid type, an object goes to the struct visitor.
from_str(toks) ==
    IF Len(toks) = 0 THEN Err
    ELSE IF toks[1].k # "{" THEN Err
    ELSE IF Len(toks) >= 2 /\ toks[2].k = "}"
    THEN (IF Len(toks) = 2 THEN Ok(PayloadDefault) ELSE Err)
    ELSE LET members == ParseMembers(toks, 2, <<>>)
         IN  IF members.ok THEN VisitMap(members.v, 1, {}, PayloadDefault) ELSE Err

\* Keys of the inbound event, in the order of serde_json's map.
EventKeys ==
    <<"api_key", "body", "contract_type", "days_forward", "headers", "limit",
      "queryStringParameters", "requestContext", "ticker_symbol">>
EventKeySet == {EventKeys[i] : i \in 1..Len(EventKeys)}

\* The entries of an object value, the absent keys left out.
RECURSIVE ObjEntries(_, _, _)
ObjEntries(val, keys, i) ==
    IF i > Len(keys) THEN <<>>
    ELSE IF keys[i] \in DOMAIN val.o /\ val.o[keys[i]] # Absent
    THEN <<(<<keys[i], val.o[keys[i]]>>)>> \o ObjEntries(val, keys, i + 1)
    ELSE ObjEntries(val, keys, i + 1)

\* serde_json::from_value::<Payload>: an object goes to the struct visitor,
\* null, a string or a number is an invalid type.
from_value(val) ==
    IF val.k = "obj" THEN VisitMap(ObjEntries(val, EventKeys, 1), 1, {}, PayloadDefault)
    ELSE Err

\* ------------------------------------------------------------ str::parse
Digits == {"0", "1", "2", "3", "4", "5", "6", "7", "8", "9"}
DigitVal(c) ==
    CASE c = "0" -> 0 [] c = "1" -> 1 [] c = "2" -> 2 [] c = "3" -> 3 [] c = "4" -> 4
      [] c = "5" -> 5 [] c = "6" -> 6 [] c = "7" -> 7 [] c = "8" -> 8 [] OTHER -> 9

RECURSIVE ParseDigits(_, _, _)
ParseDigits(s, i, acc) ==
    IF i > Len(s) THEN Ok(acc)
    ELSE IF s[i] \notin Digits THEN Err
    ELSE ParseDigits(s, i + 1, acc * 10 + DigitVal(s[i]))

\* str::parse::<i64>: an optional sign, then at least one digit and digits
\* only.  The strings of the model have at most nine characters, so the
\* value never leaves the range of i64.
ParseI64(s) ==
    IF Len(s) = 0 THEN Err
    ELSE IF s[1] \in {"+", "-"}
    THEN IF Len(s) = 1 THEN Err
         ELSE LET r == ParseDigits(s, 2, 0)
              IN  IF ~r.ok THEN Err
                  ELSE IF s[1] = "-" THEN Ok(0 - r.v) ELSE r
    ELSE ParseDigits(s, 1, 0)

\* days_forward.parse().unwrap_or(30)
DaysForwardInt(days_forward) ==
    LET r == ParseI64(days_forward) IN IF r.ok THEN r.v ELSE DefaultDaysForward

\* today + Duration::days(n): chrono's Add panics when the date leaves
\* NaiveDate::MIN..=MAX (Duration::days itself panics only beyond about
\* 10^11 days, which a nine-character string cannot name).
DateAddOverflows(today, n) ==
    today + n > NaiveDateMaxDays \/ today + n < NaiveDateMinDays

\* ------------------------------------------------------- inbound events
S_GOOG == <<"G", "O", "O", "G">>
S_TSLA == <<"T", "S", "L", "A">>
S_NVDA == <<"N", "V", "D", "A">>
S_GW == <<"g", "w", "-", "1">>
\* event.context.request_id, the platform's invocation identifier
S_CTX == <<"c", "t", "x", "-", "1">>

NoFields == [f \in ParamFieldSet |-> Absent]

\* A parameter object: the object value with the fields of P that are present.
ParamObj(P) == JObj(P)

\* serde_json::to_string of the object with P's present fields, as a caller
\* builds the `body` string.
ValueToken(val) ==
    CASE val.k = "str" -> TStr(val.s)
      [] val.k = "num" -> TNum(val.n)
      [] OTHER -> TNull

RECURSIVE SerializeMembers(_, _, _)
SerializeMembers(P, i, first) ==
    IF i > Len(ParamFields) THEN <<>>
    ELSE IF P[ParamFields[i]] = Absent THEN SerializeMembers(P, i + 1, first)
    ELSE (IF first THEN <<>> ELSE <<TPunct(",")>>)
         \o <<TKey(ParamFields[i]), TPunct(":"), ValueToken(P[ParamFields[i]])>>
         \o SerializeMembers(P, i + 1, FALSE)

Serialize(P) == <<TPunct("{")>> \o SerializeMembers(P, 1, TRUE) \o <<TPunct("}")>>

EmptyEvent == [key \in EventKeySet |-> Absent]

\* The event that carries the field values P in one of the four shapes,
\* with requestContext rc.
MkEvent(shape, P, rc) ==
    LET base == [EmptyEvent EXCEPT !["requestContext"] = rc]
    IN  CASE shape = "query" -> JObj([base EXCEPT !["queryStringParameters"] = ParamObj(P)])
          [] shape = "headers" -> JObj([base EXCEPT !["headers"] = ParamObj(P)])
          [] shape = "body" -> JObj([base EXCEPT !["body"] = JText(Serialize(P))])
          [] OTHER -> JObj([key \in EventKeySet |->
                              IF key \in ParamFieldSet THEN P[key] ELSE base[key]])

Shapes == {"query", "headers", "body", "bare"}

\* requestContext as the event may carry it.
RequestContexts ==
    { Absent, JNull,
      JObj([requestId |-> JStr(S_GW)]),
      JObj([requestId |-> JNum(7)]),
      JObj([requestId |-> Absent]) }

\* Field values a caller may supply, right or wrong in type.
FieldAssignments ==
    { [ticker_symbol |-> t, api_key |-> a, limit |-> l, days_forward |-> d,
       contract_type |-> c] :
        t \in {Absent, JStr(S_MSFT), JNum(1)},
        a \in {Absent, JStr(S_KEY)},
        l \in {Absent, JNull, JStr(S_5), JNum(5)},
        d \in {Absent, JStr(S_7), JStr(S_NEG), JStr(S_ABC), JStr(S_HUGE)},
        c \in {Absent, JStr(S_PUT)} }

\* Field values that are strings, null or absent, as the interface documents.
IsStringTyped(P) == \A f \in ParamFieldSet : P[f].k \in {"absent", "null", "str"}

ShapeEvents == { MkEvent(s, P, rc) : s \in Shapes, P \in FieldAssignments, rc \in RequestContexts }

\* Values of a `body` field that are no parameter record: a non-string,
\* the empty text, a top-level scalar, a text cut short, a text with
\* trailing tokens, a record with a wrongly typed field.
BodyGood == Serialize([NoFields EXCEPT !["ticker_symbol"] = JStr(S_TSLA), !["limit"] = JStr(S_5)])
BadBodies ==
    { JNum(5), JNull, JText(<<>>), JText(<<TNum(5)>>),
      JText(SubSeq(BodyGood, 1, Len(BodyGood) - 1)),
      JText(SubSeq(BodyGood, 1, 4)),
      JText(BodyGood \o <<TPunct("}")>>),
      JText(Serialize([NoFields EXCEPT !["ticker_symbol"] = JStr(S_TSLA), !["limit"] = JNum(5)])) }

\* Events that carry several sources at once, each with its own ticker.
MixedEvents ==
    { JObj([key \in EventKeySet |->
              CASE key = "queryStringParameters" -> q
                [] key = "headers" -> h
                [] key = "body" -> b
                [] key = "ticker_symbol" -> t
                [] key = "requestContext" -> rc
                [] OTHER -> Absent]) :
        q \in {Absent, JNull, JStr(S_ABC), ParamObj([NoFields EXCEPT !["ticker_symbol"] = JStr(S_MSFT)])},
        h \in {Absent, JNull, ParamObj([NoFields EXCEPT !["ticker_symbol"] = JStr(S_GOOG)])},
        b \in {Absent, JText(BodyGood)} \cup BadBodies,
        t \in {Absent, JStr(S_NVDA)},
        rc \in {Absent, JObj([requestId |-> JStr(S_GW)])} }

\* An event that is no object at all.
ScalarEvents == {JNull, JNum(0)}

AllEvents == ShapeEvents \cup MixedEvents \cup ScalarEvents

\* ------------------------------------------------------ upstream replies
\* What one HTTP call can come to: send() fails (transport), or a status
\* arrives and the body is then read (json() or text()), which fails or
\* yields a value.
SendFailed == [send |-> "err", status |-> "none", body |-> Err]
Reply(status, body) == [send |-> "ok", status |-> status, body |-> body]

S_T1 == <<"O", ":", "A", "1">>
S_T2 == <<"O", ":", "A", "2">>

\* Elements of the list endpoint's `results`: contracts with a string
\* ticker, with a numeric ticker, with none.
ResultElements ==
    { JObj([ticker |-> JStr(S_T1)]), JObj([ticker |-> JStr(S_T2)]),
      JObj([ticker |-> JNum(1)]), JObj([ticker |-> Absent]) }

RECURSIVE SeqsUpTo(_, _)
SeqsUpTo(S, n) ==
    IF n = 0 THEN {<<>>}
    ELSE LET shorter == SeqsUpTo(S, n - 1)
         IN  shorter \cup {Append(q, x) : q \in shorter, x \in S}

ListerBodies ==
    { JObj([results |-> JArr(a)]) : a \in SeqsUpTo(ResultElements, MaxResults) }
    \cup { JObj([results |-> Absent]), JObj([results |-> JNull]), JObj([results |-> JStr(S_ABC)]), JNull }

ListerReplies ==
    { SendFailed, Reply("success", Err), Reply("error", Err), Reply("error", Ok(JStr(<<>>))) }
    \cup { Reply("success", Ok(d)) : d \in ListerBodies }

\* JSON numbers are held in units of 1/10000.
Unit == 10000
S_DATE == <<"2", "0", "2", "6", "-", "1", "2", "-", "1", "8">>

\* A full snapshot of the contract asked for, and a snapshot without
\* `details` whose open interest is no integer.
DetailFull(t) ==
    JObj([ details |-> JObj([contract_type |-> JStr(S_CALL), expiration_date |-> JStr(S_DATE),
                             strike_price |-> JNum(1505000), ticker |-> JStr(t)]),
           implied_volatility |-> JNum(1234),
           open_interest |-> JNum(120000),
           last_quote |-> JObj([midpoint |-> JNum(15000)]) ])
DetailSparse ==
    JObj([ details |-> Absent, implied_volatility |-> Absent,
           open_interest |-> JNum(25000), last_quote |-> JNull ])

DetailReplies(t) ==
    { SendFailed, Reply("success", Err), Reply("error", Err), Reply("error", Ok(JStr(<<>>))),
      Reply("success", Ok(JObj([results |-> Absent]))),
      Reply("success", Ok(JObj([results |-> JNull]))),
      Reply("success", Ok(JObj([results |-> DetailFull(t)]))),
      Reply("success", Ok(JObj([results |-> DetailSparse]))) }

\* ------------------------------------------ get_relevant_option_contracts
\* data["results"].as_array().unwrap_or(&vec![])
AsArrayOrEmpty(val) == IF val.k = "arr" THEN val.a ELSE <<>>

\* Variant: the walk stops at the first element without a string ticker.
RECURSIVE FilterTickersMapWhile(_, _)
FilterTickersMapWhile(arr, i) ==
    IF i > Len(arr) THEN <<>>
    ELSE LET t == AsStr(Index(arr[i], "ticker"))
         IN  IF t = None THEN <<>> ELSE <<t.v>> \o FilterTickersMapWhile(arr, i + 1)

\* .iter().filter_map(|contract| contract["ticker"].as_str()).collect()
RECURSIVE FilterTickers(_, _)
FilterTickers(arr, i) ==
    IF i > Len(arr) THEN <<>>
    ELSE LET t == AsStr(Index(arr[i], "ticker"))
         IN  (IF t = None THEN <<>> ELSE <<t.v>>) \o FilterTickers(arr, i + 1)

\* Variant: a non-success status is returned as an error.
ListerErrOnStatus(reply) ==
    IF reply.send = "err" THEN Err
    ELSE IF reply.status = "success"
    THEN IF reply.body.ok
         THEN Ok(FilterTickers(AsArrayOrEmpty(Index(reply.body.v, "results")), 1))
         ELSE Err
    ELSE Err

\* The Result of get_relevant_option_contracts once its HTTP call has
\* come to `reply`: `?` on send(), json() and text() returns the error.
get_relevant_option_contracts(reply) ==
    IF reply.send = "err" THEN Err
    ELSE IF reply.status = "success"
    THEN IF reply.body.ok
         THEN Ok(FilterTickers(AsArrayOrEmpty(Index(reply.body.v, "results")), 1))
         ELSE Err
    ELSE IF reply.body.ok THEN Ok(<<>>) ELSE Err

\* --------------------------------------------------- get_contract_details
get_contract_details(reply) ==
    IF reply.send = "err" THEN Err
    ELSE IF reply.status = "success"
    THEN IF reply.body.ok THEN Ok(Index(reply.body.v, "results")) ELSE Err
    ELSE IF reply.body.ok THEN Ok(JNull) ELSE Err

\* ----------------------------------------------------------- Result Shaper
S_NA == <<"N", "/", "A">>

DigitChar(d) ==
    CASE d = 0 -> "0" [] d = 1 -> "1" [] d = 2 -> "2" [] d = 3 -> "3" [] d = 4 -> "4"
      [] d = 5 -> "5" [] d = 6 -> "6" [] d = 7 -> "7" [] d = 8 -> "8" [] OTHER -> "9"

\* u64::to_string
RECURSIVE NatToStr(_)
NatToStr(n) == IF n < 10 THEN <<DigitChar(n)>> ELSE Append(NatToStr(n \div 10), DigitChar(n % 10))

RECURSIVE TrimZeros(_)
TrimZeros(s) ==
    IF Len(s) > 0 /\ s[Len(s)] = "0" THEN TrimZeros(SubSeq(s, 1, Len(s) - 1)) ELSE s

\* f64::to_string of n/Unit (n >= 0): the shortest decimal form.
F64ToString(n) ==
    LET frac == n % Unit
        digits == <<DigitChar(frac \div 1000), DigitChar((frac \div 100) % 10),
                    DigitChar((frac \div 10) % 10), DigitChar(frac % 10)>>
    IN  NatToStr(n \div Unit) \o (IF frac = 0 THEN <<>> ELSE <<".">> \o TrimZeros(digits))

\* format!("{:.2}", h/100) for a count h of hundredths.
FmtHundredths(h) ==
    NatToStr(h \div 100) \o <<".", DigitChar((h % 100) \div 10), DigitChar(h % 10)>>

\* format!("{:.2}", p) of p = n/Unit; the numbers of the model are whole
\* hundredths, so no rounding arises.
FmtFixed2(n) == FmtHundredths(n \div 100)

\* format!("{:.2}%", v * 100.0) of v = n/Unit
FmtPercent(n) == Append(FmtHundredths(n), "%")

\* Value::as_f64 / as_u64, as the number in units of 1/Unit or None.
AsF64(val) == IF val.k = "num" THEN Some(val.n) ELSE None
AsU64(val) ==
    IF val.k = "num" /\ val.n >= 0 /\ val.n % Unit = 0 THEN Some(val.n \div Unit) ELSE None

\* .as_str().unwrap_or("N/A")
StrOrNA(val) == IF AsStr(val) = None THEN S_NA ELSE AsStr(val).v

\* The summary of one non-null contract value (the json! of the handler).
Shape(contract) ==
    LET details == Index(contract, "details")
        strike == AsF64(Index(details, "strike_price"))
        iv == AsF64(Index(contract, "implied_volatility"))
        oi == AsU64(Index(contract, "open_interest"))
        mid == AsF64(Index(Index(contract, "last_quote"), "midpoint"))
    IN  [ contract_type |-> StrOrNA(Index(details, "contract_type")),
          expiration_date |-> StrOrNA(Index(details, "expiration_date")),
          implied_volatility |-> IF iv = None THEN S_NA ELSE FmtPercent(iv.v),
          open_interest |-> IF oi = None THEN S_NA ELSE NatToStr(oi.v),
          premium |-> IF mid = None THEN S_NA ELSE FmtFixed2(mid.v),
          strike_price |-> IF strike = None THEN S_NA ELSE F64ToString(strike.v),
          ticker |-> StrOrNA(Index(details, "ticker")) ]

\* Variant: no test for null, every Ok value is shaped.
SurvivesKeepNull(result) == result.ok

\* Whether the filter_map keeps a fetch result: Ok and not null.
Survives(result) == result.ok /\ result.v.k # "null"

\* contracts_data.into_iter().filter_map(..).collect()
RECURSIVE FormatContracts(_, _)
FormatContracts(data, i) ==
    IF i > Len(data) THEN <<>>
    ELSE (IF Survives(data[i]) THEN <<Shape(data[i].v)>> ELSE <<>>)
         \o FormatContracts(data, i + 1)

\* ------------------------------------------------------- function_handler
VARIABLES
    event,            \* event.payload, the inbound JSON value
    pc,               \* where the handler stands
    source,           \* the branch of the parameter extraction that ran
    payload,          \* the Payload the branch produced
    request_id,       \* the request identifier the branch resolved
    params,           \* the five parameters after defaulting
    lister_query,     \* the query of the Contract Lister's GET, once sent
    lister_reply,     \* what the Contract Lister's HTTP call came to
    contract_tickers, \* the Vec<String> the Lister returned
    fetches,          \* the futures handed to join_all, one per ticker
    issued,           \* the detail requests sent so far, in order
    completed,        \* the indices of the fetches in the order they resolved
    contracts_data,   \* the output of join_all
    response          \* the Response the handler returned

vars ==
    <<event, pc, source, payload, request_id, params, lister_query, lister_reply,
      contract_tickers, fetches, issued, completed, contracts_data, response>>

\* Option::and_then(|rc| rc.get(key))
AndThenGet(opt, key) == IF opt = None THEN None ELSE Get(opt.v, key)

\* Variant: a source whose value is null counts as missing.
ChosenSourceSkipNull(ev) ==
    IF Get(ev, "queryStringParameters") \notin {None, Some(JNull)} THEN "query"
    ELSE IF Get(ev, "headers") \notin {None, Some(JNull)} THEN "headers"
    ELSE IF Get(ev, "body") \notin {None, Some(JNull)} THEN "body"
    ELSE "direct"

\* The branch of the if/else-if chain an event takes: the first of
\* queryStringParameters, headers, body the event has, else the direct one.
ChosenSource(ev) ==
    IF Get(ev, "queryStringParameters") # None THEN "query"
    ELSE IF Get(ev, "headers") # None THEN "headers"
    ELSE IF Get(ev, "body") # None THEN "body"
    ELSE "direct"

\* requestContext.requestId as a string, else event.context.request_id.
RequestIdFromContext(ev) ==
    LET id == AndThenAsStr(AndThenGet(Get(ev, "requestContext"), "requestId"))
    IN  IF id = None THEN S_CTX ELSE id.v

\* Variant: the direct branch looks at requestContext like the others.
RequestIdEveryBranch(branch, ev) == RequestIdFromContext(ev)

\* The request identifier a branch resolves: the direct branch takes
\* event.context.request_id without looking at requestContext.
RequestId(branch, ev) ==
    IF branch = "direct" THEN S_CTX ELSE RequestIdFromContext(ev)

\* Variant: the body value itself is deserialized, not the text it holds.
PayloadFromBodyAsValue(body) == unwrap_or_default(from_value(body))

\* body.as_str().unwrap_or("") parsed by serde_json::from_str, or default.
PayloadFromBody(body) ==
    LET body_str == IF AsStr(body) = None THEN <<>> ELSE AsStr(body).v
    IN  unwrap_or_default(from_str(body_str))

\* serde_json::from_value(event.payload.clone()).unwrap_or_default()
PayloadDirect(ev) == unwrap_or_default(from_value(ev))

\* Option::unwrap_or
UnwrapOr(opt, default) == IF opt = None THEN default ELSE opt.v

\* The five parameters, each absent one replaced by its literal default.
ResolveParams(p) ==
    [ ticker_symbol |-> UnwrapOr(p.ticker_symbol, S_AAPL),
      api_key |-> UnwrapOr(p.api_key, S_KEY_DEFAULT),
      limit |-> UnwrapOr(p.limit, S_10),
      days_forward |-> UnwrapOr(p.days_forward, S_30),
      contract_type |-> UnwrapOr(p.contract_type, S_CALL) ]

DefaultParams == ResolveParams(PayloadDefault)

\* The query of the list endpoint's GET; the two dates are day numbers
\* (their "%Y-%m-%d" text is not modelled).
ListerQuery(p) ==
    [ apiKey |-> p.api_key, underlying_ticker |-> p.ticker_symbol, limit |-> p.limit,
      gte |-> Today, lte |-> Today + DaysForwardInt(p.days_forward),
      contract_type |-> p.contract_type ]

\* The snapshot request of one contract: the underlying and the ticker of
\* the URL, the key of the query.
DetailRequest(p, ticker) ==
    [ apiKey |-> p.api_key, underlying_asset |-> p.ticker_symbol, option_ticker |-> ticker ]

NewFetch == [st |-> "new", reply |-> None, out |-> Err]

\* Variant: a future is polled only once those before it are done.
CanPollSequential(fs, i) == fs[i].st = "new" /\ \A j \in 1..(i - 1) : fs[j].st = "done"

\* join_all polls its futures in order; the first poll of one sends its
\* request, whatever the state of the futures before it.
CanPoll(fs, i) == fs[i].st = "new" /\ \A j \in 1..(i - 1) : fs[j].st # "new"

\* Variant: the outputs in the order the futures resolved.
JoinAllOutputByCompletion == [p \in 1..Len(completed) |-> fetches[completed[p]].out]

\* join_all's output: each future's output in the future's own place.
JoinAllOutput == [i \in 1..Len(fetches) |-> fetches[i].out]

\* Events of the full handler runs.
HandlerEvents ==
    { MkEvent(s, [NoFields EXCEPT !["ticker_symbol"] = JStr(S_MSFT)], rc) :
        s \in Shapes, rc \in {Absent, JObj([requestId |-> JStr(S_GW)])} }
    \cup { MkEvent("query", NoFields, JObj([requestId |-> JNum(7)])),
           MkEvent("bare", [NoFields EXCEPT !["days_forward"] = JStr(S_HUGE)], Absent),
           MkEvent("body", [NoFields EXCEPT !["limit"] = JNum(5)], Absent) }

InitWith(events) ==
    /\ event \in events
    /\ pc = "start"
    /\ source = "none"
    /\ payload = PayloadDefault
    /\ request_id = <<>>
    /\ params = DefaultParams
    /\ lister_query = None
    /\ lister_reply = None
    /\ contract_tickers = <<>>
    /\ fetches = <<>>
    /\ issued = <<>>
    /\ completed = <<>>
    /\ contracts_data = <<>>
    /\ response = None

Init == InitWith(HandlerEvents)
InitParams == InitWith(AllEvents)

Extracted(branch, p) ==
    /\ pc = "start"
    /\ ChosenSource(event) = branch
    /\ source' = branch
    /\ payload' = p
    /\ request_id' = RequestId(branch, event)
    /\ pc' = "extracted"
    /\ UNCHANGED <<event, params, lister_query, lister_reply, contract_tickers, fetches,
                   issued, completed, contracts_data, response>>

ExtractQuery ==
    Extracted("query", extract_parameters_from_value(Index(event, "queryStringParameters")))

ExtractHeaders ==
    Extracted("headers", extract_parameters_from_value(Index(event, "headers")))

ExtractBody == Extracted("body", PayloadFromBody(Index(event, "body")))

ExtractDirect == Extracted("direct", PayloadDirect(event))

ResolveDefaults ==
    /\ pc = "extracted"
    /\ params' = ResolveParams(payload)
    /\ pc' = "resolved"
    /\ UNCHANGED <<event, source, payload, request_id, lister_query, lister_reply,
                   contract_tickers, fetches, issued, completed, contracts_data, response>>

\* get_relevant_option_contracts up to send(): the date arithmetic, which
\* panics on overflow, then the GET.
ListerPanic ==
    /\ pc = "resolved"
    /\ DateAddOverflows(Today, DaysForwardInt(params.days_forward))
    /\ pc' = "panicked"
    /\ UNCHANGED <<event, source, payload, request_id, params, lister_query, lister_reply,
                   contract_tickers, fetches, issued, completed, contracts_data, response>>

ListerSend ==
    /\ pc = "resolved"
    /\ ~DateAddOverflows(Today, DaysForwardInt(params.days_forward))
    /\ lister_query' = Some(ListerQuery(params))
    /\ pc' = "lister_wait"
    /\ UNCHANGED <<event, source, payload, request_id, params, lister_reply,
                   contract_tickers, fetches, issued, completed, contracts_data, response>>

\* The Lister's call comes to an end; `.await?` returns its error from the
\* handler, else the futures of the detail fetches are built (not polled).
ListerComplete ==
    /\ pc = "lister_wait"
    /\ \E reply \in ListerReplies :
        LET res == get_relevant_option_contracts(reply)
        IN  /\ lister_reply' = Some(reply)
            /\ IF res.ok
               THEN /\ contract_tickers' = res.v
                    /\ fetches' = [i \in 1..Len(res.v) |-> NewFetch]
                    /\ pc' = "fetching"
               ELSE /\ pc' = "failed"
                    /\ UNCHANGED <<contract_tickers, fetches>>
    /\ UNCHANGED <<event, source, payload, request_id, params, lister_query,
                   issued, completed, contracts_data, response>>

\* join_all polls a future for the first time: its request is sent.
PollStart ==
    /\ pc = "fetching"
    /\ \E i \in 1..Len(fetches) :
        /\ CanPoll(fetches, i)
        /\ fetches' = [fetches EXCEPT ![i].st = "pending"]
        /\ issued' = Append(issued, DetailRequest(params, contract_tickers[i]))
    /\ UNCHANGED <<event, pc, source, payload, request_id, params, lister_query,
                   lister_reply, contract_tickers, completed, contracts_data, response>>

\* One pending fetch resolves, in any order among the pending ones.
FetchComplete ==
    /\ pc = "fetching"
    /\ \E i \in 1..Len(fetches) :
        /\ fetches[i].st = "pending"
        /\ \E reply \in DetailReplies(contract_tickers[i]) :
            fetches' = [fetches EXCEPT
                          ![i] = [st |-> "done", reply |-> Some(reply),
                                  out |-> get_contract_details(reply)]]
        /\ completed' = Append(completed, i)
    /\ UNCHANGED <<event, pc, source, payload, request_id, params, lister_query,
                   lister_reply, contract_tickers, issued, contracts_data, response>>

\* join_all is ready once every future is done.
JoinAllReady ==
    /\ pc = "fetching"
    /\ \A i \in 1..Len(fetches) : fetches[i].st = "done"
    /\ contracts_data' = JoinAllOutput
    /\ pc' = "joined"
    /\ UNCHANGED <<event, source, payload, request_id, params, lister_query, lister_reply,
                   contract_tickers, fetches, issued, completed, response>>

\* The results are shaped and the Response is returned.
Respond ==
    /\ pc = "joined"
    /\ response' = Some([ req_id |-> request_id,
                          response |-> [option_contracts |-> FormatContracts(contracts_data, 1)] ])
    /\ pc' = "done"
    /\ UNCHANGED <<event, source, payload, request_id, params, lister_query, lister_reply,
                   contract_tickers, fetches, issued, completed, contracts_data>>

NextParams ==
    \/ ExtractQuery
    \/ ExtractHeaders
    \/ ExtractBody
    \/ ExtractDirect
    \/ ResolveDefaults
    \/ ListerPanic
    \/ ListerSend

Next ==
    \/ NextParams
    \/ ListerComplete
    \/ PollStart
    \/ FetchComplete
    \/ JoinAllReady
    \/ Respond

Spec == Init /\ [][Next]_vars
SpecParams == InitParams /\ [][NextParams]_vars

\* ------------------------------------------------------------- properties
OptionContracts == response.v.response.option_contracts

\* The fetches whose own output is Ok and not null.
SurvivorIndices == {i \in 1..Len(fetches) : fetches[i].out.ok /\ fetches[i].out.v.k # "null"}
Rank(i) == Cardinality({j \in SurvivorIndices : j <= i})

\* C1: whatever the order in which the detail fetches resolve, the
\* option_contracts of the response hold the summaries of the surviving
\* contracts in the order of the contract-identifier list: the summary of
\* the i-th identifier stands at the place given by the number of
\* survivors up to i.
C1_OrderPreserved ==
    pc = "done" =>
        /\ Len(OptionContracts) = Cardinality(SurvivorIndices)
        /\ \A i \in SurvivorIndices : OptionContracts[Rank(i)] = Shape(fetches[i].out.v)

\* The second fetch resolved before the first, both survive, and their
\* summaries differ.
C1_Witness ==
    /\ pc = "done"
    /\ completed = <<2, 1>>
    /\ SurvivorIndices = {1, 2}
    /\ OptionContracts[1].ticker = S_T1
    /\ OptionContracts[2].ticker = S_T2

\* A detail fetch has failed: transport error, unreadable body, non-success
\* status, or a `results` that is null or missing.
FetchFailed(reply) ==
    \/ reply.send = "err"
    \/ reply.status # "success"
    \/ ~reply.body.ok
    \/ Index(reply.body.v, "results") = JNull

FailedIndices == {i \in 1..Len(fetches) : fetches[i].st = "done" /\ FetchFailed(fetches[i].reply.v)}

\* C2: each failed detail fetch removes its own contract and nothing else:
\* the list is as much shorter as there are failed fetches, every other
\* contract's summary is there as shaped from its own reply, every fetch
\* was issued and ran to its end, and no failure of the invocation follows
\* a detail fetch.
C2_FailureRemovesOnlyItself ==
    /\ pc = "done" =>
        /\ \A i \in 1..Len(fetches) : fetches[i].st = "done"
        /\ Len(fetches) = Len(contract_tickers)
        /\ Len(OptionContracts) = Len(contract_tickers) - Cardinality(FailedIndices)
        /\ \A i \in (1..Len(fetches)) \ FailedIndices :
            OptionContracts[i - Cardinality({j \in FailedIndices : j < i})]
                = Shape(Index(fetches[i].reply.v.body.v, "results"))
    /\ pc \in {"failed", "panicked"} => issued = <<>> /\ completed = <<>>
    /\ (pc = "fetching" /\ \A i \in 1..Len(fetches) : fetches[i].st = "done") => ENABLED JoinAllReady

\* Of two fetches the first failed on a non-success status and the second
\* is in the response.
C2_Witness ==
    /\ pc = "done"
    /\ Len(fetches) = 2
    /\ FailedIndices = {1}
    /\ fetches[1].reply.v.status = "error"
    /\ Len(OptionContracts) = 1
    /\ OptionContracts[1].ticker = contract_tickers[2]

\* C9: no detail fetch is issued before the Lister's call has come to its
\* end; a fetch not yet issued can be issued whatever the state of the
\* fetches before it; and a response exists only when every fetch was
\* issued and is done.
C9_StagesOrdered ==
    /\ (issued # <<>> \/ fetches # <<>>) => (lister_reply # None /\ pc \notin {"start", "extracted", "resolved", "lister_wait"})
    /\ (pc = "fetching" /\ \E i \in 1..Len(fetches) : fetches[i].st = "new") => ENABLED PollStart
    /\ response # None =>
        /\ Len(fetches) = Len(contract_tickers)
        /\ Len(issued) = Len(contract_tickers)
        /\ \A i \in 1..Len(fetches) : fetches[i].st = "done"

\* Two fetches are in flight at once.
C9_Witness ==
    /\ pc = "fetching"
    /\ Len(fetches) = 2
    /\ fetches[1].st = "pending"
    /\ fetches[2].st = "pending"

\* The string tickers of the elements of the reply's `results`, in order.
HasStringTicker(e) == e.k = "obj" /\ "ticker" \in DOMAIN e.o /\ e.o.ticker.k = "str"
ExpectedTickers(reply) ==
    LET data == reply.body.v
        results == IF data.k = "obj" /\ "results" \in DOMAIN data.o THEN data.o.results ELSE JNull
        elems == IF results.k = "arr" THEN SelectSeq(results.a, HasStringTicker) ELSE <<>>
    IN  [i \in 1..Len(elems) |-> elems[i].o.ticker.s]

ListerSucceeded ==
    lister_reply # None /\ lister_reply.v.send = "ok" /\ lister_reply.v.status = "success"
        /\ lister_reply.v.body.ok

\* C10: on a successful Lister reply the detail requests are those of the
\* elements of `results` with a string ticker, one each, in array order,
\* and no other; none once `results` is missing or no array.
C10_FetchesMatchResults ==
    ListerSucceeded =>
        LET expected == ExpectedTickers(lister_reply.v)
        IN  /\ contract_tickers = expected
            /\ Len(issued) <= Len(expected)
            /\ \A i \in 1..Len(issued) :
                issued[i] = [apiKey |-> params.api_key, underlying_asset |-> params.ticker_symbol,
                             option_ticker |-> expected[i]]
            /\ pc \in {"joined", "done"} => Len(issued) = Len(expected)

\* `results` holds an element without a string ticker, then a contract:
\* only the contract is fetched.
C10_Witness ==
    /\ pc = "done"
    /\ ListerSucceeded
    /\ lister_reply.v.body.v = JObj([results |-> JArr(<<JObj([ticker |-> JNum(1)]), JObj([ticker |-> JStr(S_T2)])>>)])
    /\ Len(issued) = 1
    /\ issued[1].option_ticker = S_T2

ListerStatusError ==
    lister_reply # None /\ lister_reply.v.send = "ok" /\ lister_reply.v.status = "error"

\* What follows an empty contract list: no invocation failure, no detail
\* fetch, an empty option_contracts.
EmptyListOutcome ==
    /\ pc \in {"fetching", "joined", "done"}
    /\ contract_tickers = <<>>
    /\ issued = <<>>
    /\ pc = "done" => OptionContracts = <<>>

\* C3 as stated: whenever the Lister's HTTP call returns a non-success
\* status, the Lister returns the empty sequence, no detail fetch is
\* issued and the response's option_contracts is empty.
C3_AsStated == ListerStatusError => EmptyListOutcome

\* C3, amended: a non-success status whose error body is read without a
\* transport failure gives the empty sequence, no detail fetch and an
\* empty option_contracts; when reading the body fails, the invocation
\* fails.
C3_StatusErrorGivesEmpty ==
    /\ (ListerStatusError /\ lister_reply.v.body.ok) => EmptyListOutcome
    /\ (ListerStatusError /\ ~lister_reply.v.body.ok) => pc = "failed"

\* The Lister was refused and the handler answered with an empty list.
C3_Witness ==
    /\ pc = "done"
    /\ ListerStatusError
    /\ lister_reply.v.body.ok
    /\ response.v.response.option_contracts = <<>>

\* The Lister's own HTTP call failed in transport or deserialization.
ListerCallFailed ==
    lister_reply # None /\ (lister_reply.v.send = "err" \/ ~lister_reply.v.body.ok)

\* C4: the invocation fails exactly when the Lister's own HTTP call fails
\* in transport or deserialization; every other event and every other
\* upstream outcome ends in a response envelope {req_id, response}.
C4_FailsOnlyOnListerFailure ==
    /\ pc \in {"failed", "panicked"} <=> ListerCallFailed
    /\ pc = "done" => (response # None /\ DOMAIN response.v = {"req_id", "response"})

\* The parameter record the documentation gives for field values P: each
\* field its string, else its default.
DocumentedDefaults ==
    [ ticker_symbol |-> S_AAPL, api_key |-> S_KEY_DEFAULT, limit |-> S_10,
      days_forward |-> S_30, contract_type |-> S_CALL ]
DocumentedParams(P) ==
    [f \in ParamFieldSet |-> IF P[f].k = "str" THEN P[f].s ELSE DocumentedDefaults[f]]

Resolved == pc \notin {"start", "extracted"}

\* The body texts of the field assignments, each with its assignment.
BodyTable == {<<Serialize(P), P>> : P \in FieldAssignments}

\* The field assignments P that the event carries in shape s, that is,
\* event = MkEvent(s, P, rc) for its requestContext rc.
SuppliedFields(s) ==
    IF event.k # "obj" THEN {}
    ELSE LET rc == event.o.requestContext
             from(key) == IF event.o[key].k = "obj" THEN {event.o[key].o} ELSE {}
             cands == CASE s = "query" -> from("queryStringParameters")
                        [] s = "headers" -> from("headers")
                        [] s = "body" -> IF event.o.body.k = "text"
                                         THEN {q[2] : q \in {r \in BodyTable : r[1] = event.o.body.toks}}
                                         ELSE {}
                        [] OTHER -> {[f \in ParamFieldSet |-> event.o[f]]}
         IN  {P \in cands : P \in FieldAssignments /\ event = MkEvent(s, P, rc)}

\* C5 as stated: whatever the field values, the four event shapes give
\* the same parameter record, each field without a string value taking
\* its default on its own.
C5_AsStated ==
    Resolved => \A s \in Shapes : \A P \in SuppliedFields(s) : params = DocumentedParams(P)

\* C5, amended: for field values that are strings, null or absent, the
\* four event shapes give the same parameter record, each missing field
\* taking its default on its own.  (A field of another type is defaulted
\* alone in the query-string and headers shapes, and turns the whole
\* record to defaults in the body and bare-record shapes.)
C5_ShapesAgreeOnStrings ==
    Resolved =>
        \A s \in Shapes : \A P \in SuppliedFields(s) :
            IsStringTyped(P) => params = DocumentedParams(P)

\* A bare record that supplies only ticker_symbol "MSFT" and a null limit.
C5_Witness ==
    /\ pc = "resolved"
    /\ source = "direct"
    /\ \E rc \in RequestContexts :
        event = MkEvent("bare", [NoFields EXCEPT !["ticker_symbol"] = JStr(S_MSFT),
                                                 !["limit"] = JNull], rc)
    /\ params = [DocumentedDefaults EXCEPT !["ticker_symbol"] = S_MSFT]

\* event.requestContext.requestId, when the event has the field.
RequestIdField(ev) == AndThenGet(Get(ev, "requestContext"), "requestId")

HasGatewaySource(ev) ==
    \E key \in {"queryStringParameters", "headers", "body"} : Get(ev, key) # None

\* C6 as stated: in every branch the response's req_id is
\* requestContext.requestId when the event has it (read here for a
\* requestId that is a string), and the platform's invocation identifier
\* only when it has not.
C6_AsStated ==
    pc = "done" =>
        IF RequestIdField(event) # None
        THEN RequestIdField(event).v.k = "str" => response.v.req_id = RequestIdField(event).v.s
        ELSE response.v.req_id = S_CTX

\* C6, amended: in the query-string, headers and body branches the req_id
\* is requestContext.requestId when that field is there and is a string,
\* else the platform's invocation identifier; in the direct branch it is
\* always the platform's invocation identifier.
C6_RequestId ==
    pc = "done" =>
        IF HasGatewaySource(event) /\ RequestIdField(event) # None
            /\ RequestIdField(event).v.k = "str"
        THEN response.v.req_id = RequestIdField(event).v.s
        ELSE response.v.req_id = S_CTX

\* A headers event with a requestContext answered under the gateway's id.
C6_Witness ==
    /\ pc = "done"
    /\ source = "headers"
    /\ RequestIdField(event) = Some(JStr(S_GW))
    /\ response.v.req_id = S_GW

Has(key) == event.k = "obj" /\ event.o[key] # Absent

\* C7: the parameters come from the first of queryStringParameters,
\* headers, body the event has, whatever that field holds, else from the
\* event as a bare record; no later source adds to them.
C7_FirstMatchWins ==
    pc # "start" =>
        IF Has("queryStringParameters")
        THEN source = "query"
             /\ payload = [f \in ParamFieldSet |-> AndThenAsStr(Get(event.o.queryStringParameters, f))]
        ELSE IF Has("headers")
        THEN source = "headers"
             /\ payload = [f \in ParamFieldSet |-> AndThenAsStr(Get(event.o.headers, f))]
        ELSE IF Has("body")
        THEN source = "body"
             /\ payload = IF event.o.body.k = "text" /\ from_str(event.o.body.toks).ok
                          THEN from_str(event.o.body.toks).v
                          ELSE PayloadDefault
        ELSE source = "direct"
             /\ payload = IF from_value(event).ok THEN from_value(event).v ELSE PayloadDefault

\* queryStringParameters is null, headers and body name their tickers:
\* the parameters are the defaults.
C7_Witness ==
    /\ pc = "resolved"
    /\ Has("queryStringParameters")
    /\ event.o.queryStringParameters = JNull
    /\ Has("headers")
    /\ event.o.headers = ParamObj([NoFields EXCEPT !["ticker_symbol"] = JStr(S_GOOG)])
    /\ Has("body")
    /\ event.o.body = JText(BodyGood)
    /\ params = DocumentedDefaults

\* The texts of the records with a field of the wrong type.
WrongTypedBodies == {JText(Serialize(P)) : P \in {Q \in FieldAssignments : ~IsStringTyped(Q)}}

\* The body is the source of the parameters and is no parameter record.
BodyIsBad ==
    /\ event.k = "obj"
    /\ event.o.queryStringParameters = Absent
    /\ event.o.headers = Absent
    /\ \/ event.o.body \in BadBodies
       \/ event.o.body \in WrongTypedBodies

\* C8: a body that is no JSON parameter record (malformed text, no string,
\* a field of the wrong type) does not fail the invocation: the handler
\* goes on with the default of every parameter and sends the Lister's
\* call with them.
C8_BadBodyGivesDefaults ==
    BodyIsBad =>
        /\ pc \notin {"failed", "panicked"}
        /\ pc # "start" => payload = PayloadDefault
        /\ Resolved => params = DocumentedDefaults
        /\ pc = "resolved" => ENABLED ListerSend
        /\ pc = "lister_wait" =>
            lister_query = Some([ apiKey |-> S_KEY_DEFAULT, underlying_ticker |-> S_AAPL,
                                  limit |-> S_10, gte |-> Today, lte |-> Today + DefaultDaysForward,
                                  contract_type |-> S_CALL ])

\* The body holds a ticker and a numeric limit; the Lister's call went
\* out for the default ticker.
C8_Witness ==
    /\ pc = "lister_wait"
    /\ event.k = "obj"
    /\ event.o.body = JText(Serialize([NoFields EXCEPT !["ticker_symbol"] = JStr(S_TSLA),
                                                       !["limit"] = JNum(5)]))
    /\ source = "body"
    /\ lister_query.v.underlying_ticker = S_AAPL

====
